---- MODULE Spec2Model ----
(***************************************************************************)
(* Model of the notebooks of run-r-on-amls: configuration.ipynb, the two   *)
(* deployment notebooks (run-r-on-amls.ipynb and its AKS-only variant) and *)
(* the scoring script score.py that the deployment notebooks write.        *)
(*                                                                         *)
(* A notebook is a list of code cells run by one kernel.  A run executes   *)
(* the cells from the top; a cell that raises halts the run.  The cells    *)
(* the notebooks mark as optional may be skipped by the user.  The cloud   *)
(* platform behind the SDK is modelled by the resources it holds; an SDK   *)
(* call either succeeds or raises one of the exceptions named below.       *)
(***************************************************************************)
EXTENDS Integers, Sequences, FiniteSets, TLC

\* ------------------------------------------------------------------ bounds
MaxRuns == 3     \* runs of a notebook
MaxLen == 3      \* characters of a request body
MaxVec == 2      \* elements of the vector the R function run returns
MaxCalls == 2    \* requests one scoring process handles

\* --------------------------------------------------------------- constants
WsIds == {"W1", "W2"}
Unbound == "unbound"
Bound == "bound"
None == "none"

cpu_cluster_name == "cpucluster"
gpu_cluster_name == "gpucluster"
aks_name == "akscluster"
ComputeNames == {cpu_cluster_name, gpu_cluster_name, aks_name}

cpu_max_nodes == 4
gpu_max_nodes == 3
min_nodes == 0

\* Exceptions an SDK call or the interpreter can raise.
ComputeTargetException == "ComputeTargetException"
WorkspaceNotFound == "WorkspaceNotFound"
PermissionDenied == "PermissionDenied"
ConfigWriteFailed == "ConfigWriteFailed"
QuotaExceeded == "QuotaExceeded"
Interrupted == "Interrupted"
NameError == "NameError"
ConfigNotFound == "ConfigNotFound"
ServiceError == "ServiceError"
WebserviceException == "WebserviceException"
ServiceExists == "ServiceExists"

aks_service_name == "r-on-aml-service"

\* Printed messages.
MsgSucceeded == "Workspace configuration succeeded"
MsgNotAccessible == "Workspace not accessible"
MsgFound == "Found existing"
MsgCreating == "Creating new"

VARIABLES
    \* the cloud platform
    wsExists,      \* [WsIds -> BOOLEAN]: the workspaces that exist
    compute,       \* [WsIds -> [ComputeNames -> [state, min, max]]]
    models,        \* the registered models: records [ws, ver]
    images,        \* the images: records [ws, ver, model, state]
    services,      \* the services: records [ws, name, image, target, state]
    modelVer,      \* [WsIds -> Nat]: versions of model.RData registered so far
    imageVer,      \* [WsIds -> Nat]: versions of r-on-amls-sample built so far
    \* the notebook library (local files)
    configFile,    \* None, or the workspace the cached configuration names
    \* the kernel
    nb,            \* the notebook being run: None, "config", "full", "aks"
    pc,            \* index of the next cell of the run
    step,          \* number of statements of the current cell already run
    status,        \* "idle", "running", "halted", "done"
    failure,       \* the uncaught exception that halted the run, or None
    env,           \* the kernel's names: [VarNames -> value or Unbound];
                   \* a value is a string (a version is written in decimal)
    out,           \* what the last executed cell printed
    caught,        \* the exceptions the last executed cell caught
    lastCell,      \* the last executed cell
    calls,         \* the SDK calls the last executed cell made, in order
    skipped,       \* the cells the user skipped in this run
    runs,          \* number of runs started
    \* history of the run, kept for the properties
    log,           \* the SDK calls of this run, in order
    writer,        \* the cell that last wrote the configuration file
    cycles,        \* number of runs of a deployment notebook that completed
    writes,        \* number of write_config calls that returned in this run
    resolved,      \* the cells that resolved the workspace in this run
    created,       \* [WsIds -> [ComputeNames -> Nat]]: successful creations
    createdExisting, \* <<ws, name>> for which create was issued while it existed
    \* the scoring process: score.py inside the serving container
    script,        \* the notebook whose score.py runs: None, "full", "aks"
    hasRInit,      \* whether model.RData defines an R function init
    sPhase,        \* "off", "new", "ready", "replying", "failed"
    loads,         \* number of times model.RData has been loaded into R
    rInits,        \* number of calls of the R function init
    rLog,          \* the R evaluations of init(), in order
    sCalls,        \* number of calls of run()
    sInput,        \* the argument of the current call of run()
    sVec,          \* the vector robjects.r returned to run(), <<>> if none
    sExc,          \* the exception raised inside run()'s try block, or None
    sReturn        \* how run() ended: [kind, val]

vars == <<wsExists, compute, models, images, services, modelVer, imageVer,
          configFile, nb, pc, step, status, failure, env, out, caught,
          lastCell, calls, skipped, runs, log, writer, cycles, writes,
          resolved, created, createdExisting, script, hasRInit, sPhase,
          loads, rInits, rLog, sCalls, sInput, sVec, sExc, sReturn>>

scoreVars == <<script, hasRInit, sPhase, loads, rInits, rLog, sCalls, sInput,
               sVec, sExc, sReturn>>

notebookVars == <<wsExists, compute, models, images, services, modelVer,
                  imageVer, configFile, nb, pc, step, status, failure, env,
                  out, caught, lastCell, calls, skipped, runs, log, writer,
                  cycles, writes, resolved, created, createdExisting>>

computeVars == <<wsExists, compute>>
registryVars == <<models, images, services, modelVer, imageVer>>
cloudVars == <<computeVars, registryVars>>
configHist == <<writer, writes, resolved>>
computeHist == <<created, createdExisting>>

VarNames ==
    {"params", "ws", "cpu_cluster", "gpu_cluster",
     "model", "conda_dependencies", "image_config", "image",
     "myaci_config", "service_name", "runtime", "driver_file",
     "my_conda_file", "myimage_config", "aci_service",
     "aks_name", "prov_config", "aks_target", "aks_config",
     "aks_service_name", "aks_service", "test_sample", "prediction"}

Absent == [state |-> "absent", min |-> 0, max |-> 0]

\* A cluster of a workspace that was set up before the notebooks ran: made by
\* other means, with node bounds of its maker's choice.
Elsewhere == [state |-> "ready", min |-> 1, max |-> 2]

Cells(n) ==
    IF n = "config"
    THEN <<"params", "access", "create", "cpu", "gpu">>
    ELSE IF n = "full"
    THEN <<"from_config", "register", "writefile", "conda", "image", "aci",
           "aks_name", "provision", "wait", "attach", "lookup", "deploy",
           "endpoint", "test", "cleanup">>
    ELSE IF n = "aks"
    THEN <<"from_config", "register", "writefile", "conda", "image",
           "provision_named", "wait", "attach", "aks_config", "deploy",
           "scoring_uri", "swagger_uri", "keys", "test", "cleanup">>
    ELSE <<>>

\* The cells the notebook's text marks as optional.
Optional(n) ==
    IF n = "config" THEN {"create", "cpu", "gpu"}
    ELSE IF n = "full" THEN {"aci", "provision", "wait", "attach"}
    ELSE {"attach"}

Notebooks == {"config", "full", "aks"}
Deployment == {"full", "aks"}

\* The names a cell reads that the cell itself has not bound before.
Reads(c) ==
    CASE c \in {"access", "create"} -> {"params"}
      [] c \in {"cpu", "gpu", "register", "provision_named"} -> {"ws"}
      [] c = "image" -> {"model", "ws"}
      [] c = "aci" -> {"ws", "model", "myimage_config"}
      [] c \in {"provision", "lookup"} -> {"ws", "aks_name"}
      [] c = "wait" -> {"aks_target"}
      [] c = "deploy" -> {"ws", "image", "aks_config", "aks_target"}
      [] c \in {"endpoint", "scoring_uri", "swagger_uri", "keys", "test"} ->
             {"aks_service"}
      [] c = "cleanup" -> {"aks_service", "image", "model"}
      [] OTHER -> {}

\* The names a cell binds before its first read of another cell's name.
BindsFirst(c) ==
    CASE c = "image" -> {"image_config"}
      [] c = "aci" -> {"myaci_config", "service_name", "runtime",
                       "driver_file", "my_conda_file"}
      [] c = "provision" -> {"prov_config"}
      [] c = "provision_named" -> {"aks_name", "prov_config"}
      [] c = "deploy" -> {"aks_service_name"}
      [] c = "test" -> {"test_sample"}
      [] OTHER -> {}

Cur == IF status = "running" THEN Cells(nb)[pc] ELSE None

Missing(c) == \E v \in Reads(c) : env[v] = Unbound

\* The kernel is about to run cell c, and every name c reads is bound.
At(c) == status = "running" /\ Cur = c /\ ~Missing(c)

\* env with the names of bs bound.
Bind(e, bs) == [v \in VarNames |-> IF v \in bs THEN Bound ELSE e[v]]

\* ------------------------------------------------------- control of a run
\* The cell returned: go to the next cell, or finish the run after the last.
Advance ==
    /\ failure' = None
    /\ IF pc = Len(Cells(nb))
       THEN status' = "done" /\ pc' = pc
       ELSE status' = "running" /\ pc' = pc + 1

\* The cell raised exc and nothing caught it: the run halts.
Halt(exc) ==
    /\ failure' = exc
    /\ status' = "halted"
    /\ pc' = pc

\* The cell ends with uncaught exception exc, or returns when exc = None.
Finish(exc) == IF exc = None THEN Advance ELSE Halt(exc)

\* The cells whose first line is %%time.  The magic runs the cell's code
\* itself: when the code raises it prints the traceback and returns, so the
\* kernel sees the cell return and the run goes on with the next cell.
Timed == {"wait", "deploy", "test", "cleanup"}

\* The exception that leaves cell c when its code raises exc.
Uncaught(c, exc) == IF c \in Timed THEN None ELSE exc

\* The exception %%time has kept from leaving cell c.
Swallowed(c, exc) == IF c \in Timed /\ exc # None THEN {exc} ELSE {}

\* Cell c has run: it left the names e, printed msgs, caught the exceptions
\* ctch, made the SDK calls `calls` and ended with exc (None: it returned).
Ran(c, exc, e, msgs, ctch, made) ==
    /\ lastCell' = c
    /\ env' = e
    /\ out' = msgs
    /\ caught' = ctch \cup Swallowed(c, exc)
    /\ calls' = made
    /\ log' = log \o made
    /\ step' = 0
    /\ Finish(Uncaught(c, exc))
    /\ cycles' = cycles
    /\ UNCHANGED <<nb, skipped, runs, scoreVars>>

\* The user runs notebook n from the top with a fresh kernel.
Start(n) ==
    /\ status \in {"idle", "halted", "done"}
    /\ runs < MaxRuns
    /\ nb' = n
    /\ pc' = 1
    /\ step' = 0
    /\ status' = "running"
    /\ failure' = None
    /\ env' = [v \in VarNames |-> Unbound]
    /\ out' = {}
    /\ caught' = {}
    /\ lastCell' = None
    /\ calls' = <<>>
    /\ skipped' = {}
    /\ runs' = runs + 1
    /\ log' = <<>>
    /\ writes' = 0
    /\ resolved' = {}
    /\ UNCHANGED <<cloudVars, configFile, writer, cycles, computeHist,
                   scoreVars>>

\* The user leaves out a cell the notebook marks as optional.
Skip ==
    /\ status = "running"
    /\ step = 0
    /\ Cur \in Optional(nb)
    /\ skipped' = skipped \cup {Cur}
    /\ Advance
    /\ UNCHANGED <<cloudVars, configFile, nb, step, env, out, caught,
                   lastCell, calls, runs, log, cycles, configHist,
                   computeHist, scoreVars>>

\* The bare except of the workspace-access cell catches every exception.
AccessCatches(exc) == TRUE

\* A cell reads a name no executed cell has bound: NameError.  The ACI cell
\* of run-r-on-amls.ipynb reads myimage_config, which no cell binds.  In the
\* workspace-access cell the read is inside the try block of the bare except.
NameErrorCell ==
    /\ status = "running"
    /\ Missing(Cur)
    /\ LET handled == Cur = "access" /\ AccessCatches(NameError)
       IN Ran(Cur, IF handled THEN None ELSE NameError,
              Bind(env, BindsFirst(Cur)),
              IF handled THEN {MsgNotAccessible} ELSE {},
              IF handled THEN {NameError} ELSE {}, <<>>)
    /\ UNCHANGED <<cloudVars, configFile, configHist, computeHist>>

\* ------------------------------------------------------------ SDK outcomes
\* Workspace(subscription_id, resource_group, workspace_name)
WorkspaceOutcomes(w) ==
    IF wsExists[w] THEN {"ok", PermissionDenied}
    ELSE {WorkspaceNotFound, PermissionDenied}

\* ws.write_config()
WriteOutcomes == {"ok", ConfigWriteFailed}

\* Workspace.create(..., exist_ok = True)
WorkspaceCreateOutcomes == {"ok", PermissionDenied}

\* Workspace.from_config()
FromConfigOutcomes ==
    IF configFile = None THEN {ConfigNotFound} ELSE {"ok", PermissionDenied}

\* ComputeTarget(workspace, name): the existence probe
ProbeOutcomes(w, n) ==
    IF compute[w][n].state # "absent" THEN {"found", PermissionDenied}
    ELSE {ComputeTargetException, PermissionDenied}

\* ComputeTarget.create(ws, name, config); what the platform answers for a
\* name that is already in use is not decided by the notebooks.
CreateOutcomes(w, n) ==
    IF compute[w][n].state = "absent" THEN {"ok", QuotaExceeded}
    ELSE {"ok", ComputeTargetException}

\* target.wait_for_completion(show_output = True)
WaitOutcomes == {"ok", Interrupted}

\* Model.register, ContainerImage.create, get_keys
CallOutcomes == {"ok", ServiceError}

\* image.wait_for_creation, wait_for_deployment, service.run, delete
PollOutcomes == {"ok", WebserviceException}

\* Webservice.deploy_from_image(workspace, name, ...)
DeployOutcomes(w, n) ==
    IF \E s \in services : s.ws = w /\ s.name = n THEN {ServiceExists}
    ELSE {"ok", WebserviceException}

\* ------------------------------------------------- configuration.ipynb
\* cell 1: the workspace parameters, read from the environment
ParamsCell ==
    /\ At("params")
    /\ \E w \in WsIds :
         Ran("params", None, [env EXCEPT !["params"] = w], {}, {}, <<>>)
    /\ UNCHANGED <<cloudVars, configFile, configHist, computeHist>>

\* Mutant of WriteConfig: an existing configuration file is not overwritten.
WriteConfigKeepsOld(w) == IF configFile = None THEN w ELSE configFile

\* The workspace whose details ws.write_config() writes.
WriteConfig(w) == w

\* cell 2: try: ws = Workspace(...); ws.write_config(); print(succeeded)
\*         except: print(not accessible)
AccessCell ==
    /\ At("access")
    /\ \E r \in WorkspaceOutcomes(env["params"]) : \E wr \in WriteOutcomes :
         LET w == env["params"]
             loaded == r = "ok"
             wrote == loaded /\ wr = "ok"
             exc == IF ~loaded THEN r ELSE IF ~wrote THEN wr ELSE None
             handled == exc # None /\ AccessCatches(exc)
         IN /\ configFile' = IF wrote THEN WriteConfig(w) ELSE configFile
            /\ writer' = IF wrote THEN "access" ELSE writer
            /\ writes' = IF wrote THEN writes + 1 ELSE writes
            /\ resolved' = IF loaded THEN resolved \cup {"access"}
                           ELSE resolved
            /\ Ran("access",
                   IF handled THEN None ELSE exc,
                   IF loaded THEN [env EXCEPT !["ws"] = w] ELSE env,
                   IF exc = None THEN {MsgSucceeded}
                   ELSE IF handled THEN {MsgNotAccessible} ELSE {},
                   IF handled THEN {exc} ELSE {},
                   <<"Workspace">> \o
                       (IF loaded THEN <<"write_config">> ELSE <<>>))
    /\ UNCHANGED <<cloudVars, computeHist>>

\* cell 3: ws = Workspace.create(..., exist_ok = True); ws.get_details();
\*         ws.write_config()
CreateCell ==
    /\ At("create")
    /\ \E r \in WorkspaceCreateOutcomes : \E wr \in WriteOutcomes :
         LET w == env["params"]
             made == r = "ok"
             wrote == made /\ wr = "ok"
             exc == IF ~made THEN r ELSE IF ~wrote THEN wr ELSE None
         IN /\ wsExists' = IF made THEN [wsExists EXCEPT ![w] = TRUE]
                           ELSE wsExists
            /\ configFile' = IF wrote THEN WriteConfig(w) ELSE configFile
            /\ writer' = IF wrote THEN "create" ELSE writer
            /\ writes' = IF wrote THEN writes + 1 ELSE writes
            /\ resolved' = IF made THEN resolved \cup {"create"}
                           ELSE resolved
            /\ Ran("create", exc,
                   IF made THEN [env EXCEPT !["ws"] = w] ELSE env,
                   {}, {},
                   <<"Workspace.create">> \o
                       (IF made THEN <<"write_config">> ELSE <<>>))
    /\ UNCHANGED <<compute, registryVars, computeHist>>

\* Mutant of ClusterCatches: a bare except, as in the workspace-access cell.
ClusterCatchesAll(exc) == TRUE

\* except ComputeTargetException: only that class is caught.
ClusterCatches(exc) == exc = ComputeTargetException

\* Mutant of ClusterCreates: create is issued without the existence check,
\* as in the AKS provisioning cell.
ClusterCreatesAlways(p) == TRUE

\* Whether the cell goes on to ComputeTarget.create after probe outcome p.
ClusterCreates(p) == p # "found" /\ ClusterCatches(p)

\* Mutant of Provisioned: the cluster is made with min_nodes = max_nodes, so
\* it never scales down.
ProvisionedUnscaled(w, name, made, waited, lo, hi) ==
    LET fresh == compute[w][name].state = "absent"
        c1 == IF made /\ fresh
              THEN [compute EXCEPT ![w][name] =
                       [state |-> "creating", min |-> hi, max |-> hi]]
              ELSE compute
    IN IF waited THEN [c1 EXCEPT ![w][name].state = "ready"] ELSE c1

\* The platform's record of compute (w, name) after ComputeTarget.create
\* returned (made) and after wait_for_completion returned (waited).
Provisioned(w, name, made, waited, lo, hi) ==
    LET fresh == compute[w][name].state = "absent"
        c1 == IF made /\ fresh
              THEN [compute EXCEPT ![w][name] =
                       [state |-> "creating", min |-> lo, max |-> hi]]
              ELSE compute
    IN IF waited THEN [c1 EXCEPT ![w][name].state = "ready"] ELSE c1

\* The creations recorded after ComputeTarget.create was issued.
Created(w, name, made) ==
    IF made /\ compute[w][name].state = "absent"
    THEN [created EXCEPT ![w][name] = @ + 1] ELSE created

CreatedExisting(w, name, issued) ==
    IF issued /\ compute[w][name].state # "absent"
    THEN createdExisting \cup {<<w, name>>} ELSE createdExisting

\* cells 4 and 5:
\*   try: cluster = ComputeTarget(workspace=ws, name=name); print(found)
\*   except ComputeTargetException:
\*       print(creating); config = AmlCompute.provisioning_configuration(...)
\*       cluster = ComputeTarget.create(ws, name, config)
\*       cluster.wait_for_completion(show_output=True)
ClusterCell(cell, var, name, maxn) ==
    /\ At(cell)
    /\ LET w == env["ws"] IN
       \E p \in ProbeOutcomes(w, name) :
       \E c \in CreateOutcomes(w, name) :
       \E wt \in WaitOutcomes :
         LET creates == ClusterCreates(p)
             made == creates /\ c = "ok"
             waited == made /\ wt = "ok"
             exc == IF p = "found" THEN None
                    ELSE IF ~creates THEN p
                    ELSE IF ~made THEN c
                    ELSE IF ~waited THEN wt ELSE None
         IN /\ compute' = Provisioned(w, name, made, waited, min_nodes, maxn)
            /\ created' = Created(w, name, made)
            /\ createdExisting' = CreatedExisting(w, name, creates)
            /\ Ran(cell, exc,
                   IF p = "found" \/ made
                   THEN [env EXCEPT ![var] = name] ELSE env,
                   IF p = "found" THEN {MsgFound}
                   ELSE IF creates THEN {MsgCreating} ELSE {},
                   IF creates THEN {p} ELSE {},
                   <<"ComputeTarget">> \o
                       (IF creates THEN <<"ComputeTarget.create">> ELSE <<>>)
                       \o (IF waited THEN <<"wait_for_completion">>
                           ELSE <<>>))
    /\ UNCHANGED <<wsExists, registryVars, configFile, configHist>>

CpuCell == ClusterCell("cpu", "cpu_cluster", cpu_cluster_name, cpu_max_nodes)

GpuCell == ClusterCell("gpu", "gpu_cluster", gpu_cluster_name, gpu_max_nodes)

\* ------------------------------- run-r-on-amls.ipynb and its AKS variant
\* The workspace Workspace.from_config() resolves from the cached file.
FromConfig(file) == file

\* ws = Workspace.from_config(); print(ws.name, ...)
FromConfigCell ==
    /\ At("from_config")
    /\ \E r \in FromConfigOutcomes :
         Ran("from_config", IF r = "ok" THEN None ELSE r,
             IF r = "ok" THEN [env EXCEPT !["ws"] = FromConfig(configFile)]
             ELSE env,
             {}, {}, <<"from_config">>)
    /\ UNCHANGED <<cloudVars, configFile, configHist, computeHist>>

\* model = Model.register(model_path = "model.RData", ..., workspace = ws)
RegisterCell ==
    /\ At("register")
    /\ \E r \in CallOutcomes :
         LET w == env["ws"]
             v == modelVer[w] + 1
             made == r = "ok"
         IN /\ models' = IF made THEN models \cup {[ws |-> w, ver |-> v]}
                         ELSE models
            /\ modelVer' = IF made THEN [modelVer EXCEPT ![w] = v]
                           ELSE modelVer
            /\ Ran("register", IF made THEN None ELSE r,
                   IF made THEN [env EXCEPT !["model"] = ToString(v)] ELSE env,
                   {}, {}, <<"Model.register">>)
    /\ UNCHANGED <<computeVars, images, services, imageVer, configFile,
                   configHist, computeHist>>

\* %%writefile score.py
WritefileCell ==
    /\ At("writefile")
    /\ Ran("writefile", None, env, {}, {}, <<>>)
    /\ UNCHANGED <<cloudVars, configFile, configHist, computeHist>>

\* conda_dependencies = CondaDependencies.create(...); written to a file
CondaCell ==
    /\ At("conda")
    /\ Ran("conda", None, Bind(env, {"conda_dependencies"}), {}, {}, <<>>)
    /\ UNCHANGED <<cloudVars, configFile, configHist, computeHist>>

\* image_config = ...; image = ContainerImage.create(models = [model], ...)
\* image.wait_for_creation(show_output = True)
ImageCell ==
    /\ At("image")
    /\ \E r \in CallOutcomes : \E wt \in PollOutcomes :
         LET w == env["ws"]
             v == imageVer[w] + 1
             made == r = "ok"
             waited == made /\ wt = "ok"
             exc == IF ~made THEN r ELSE IF ~waited THEN wt ELSE None
         IN /\ images' =
                 IF made
                 THEN images \cup
                        {[ws |-> w, ver |-> v, model |-> env["model"],
                          state |-> IF waited THEN "ready" ELSE "failed"]}
                 ELSE images
            /\ imageVer' = IF made THEN [imageVer EXCEPT ![w] = v]
                           ELSE imageVer
            /\ Ran("image", exc,
                   IF made
                   THEN [Bind(env, {"image_config"}) EXCEPT !["image"] = ToString(v)]
                   ELSE Bind(env, {"image_config"}),
                   {}, {},
                   <<"ContainerImage.create">> \o
                       (IF waited THEN <<"image.wait_for_creation">>
                        ELSE <<>>))
    /\ UNCHANGED <<computeVars, models, services, modelVer, configFile,
                   configHist, computeHist>>

\* from azureml.core.compute import AksCompute, ComputeTarget; aks_name = ...
AksNameCell ==
    /\ At("aks_name")
    /\ Ran("aks_name", None, Bind(env, {"aks_name"}), {}, {}, <<>>)
    /\ UNCHANGED <<cloudVars, configFile, configHist, computeHist>>

\* prov_config = AksCompute.provisioning_configuration()
\* aks_target = ComputeTarget.create(workspace = ws, name = aks_name, ...)
\* (the AKS variant binds aks_name in this cell)
ProvisionCell ==
    /\ At("provision") \/ At("provision_named")
    /\ LET w == env["ws"] IN
       \E r \in CreateOutcomes(w, aks_name) :
         LET made == r = "ok" IN
         /\ compute' = Provisioned(w, aks_name, made, FALSE, 0, 0)
         /\ created' = Created(w, aks_name, made)
         /\ createdExisting' = CreatedExisting(w, aks_name, TRUE)
         /\ Ran(Cur, IF made THEN None ELSE r,
                IF made
                THEN [Bind(env, BindsFirst(Cur)) EXCEPT
                         !["aks_target"] = aks_name]
                ELSE Bind(env, BindsFirst(Cur)),
                {}, {}, <<"ComputeTarget.create">>)
    /\ UNCHANGED <<wsExists, registryVars, configFile, configHist>>

\* aks_target.wait_for_completion(show_output = True); print(state, errors)
WaitCell ==
    /\ At("wait")
    /\ \E wt \in WaitOutcomes :
         LET w == env["ws"]
             waited == wt = "ok"
         IN /\ compute' = Provisioned(w, aks_name, FALSE, waited, 0, 0)
            /\ Ran("wait", IF waited THEN None ELSE wt, env, {}, {},
                   IF waited THEN <<"aks.wait_for_completion">> ELSE <<>>)
    /\ UNCHANGED <<wsExists, registryVars, configFile, configHist,
                   computeHist>>

\* The commented-out attach cell: a string literal, nothing is run.
AttachCell ==
    /\ At("attach")
    /\ Ran("attach", None, env, {}, {}, <<>>)
    /\ UNCHANGED <<cloudVars, configFile, configHist, computeHist>>

\* aks_target = ComputeTarget(workspace = ws, name = aks_name)
\* aks_config = AksWebservice.deploy_configuration()
LookupCell ==
    /\ At("lookup")
    /\ \E p \in ProbeOutcomes(env["ws"], aks_name) :
         Ran("lookup", IF p = "found" THEN None ELSE p,
             IF p = "found"
             THEN [Bind(env, {"aks_config"}) EXCEPT !["aks_target"] = aks_name]
             ELSE env,
             {}, {}, <<"ComputeTarget">>)
    /\ UNCHANGED <<cloudVars, configFile, configHist, computeHist>>

\* aks_config = AksWebservice.deploy_configuration()
AksConfigCell ==
    /\ At("aks_config")
    /\ Ran("aks_config", None, Bind(env, {"aks_config"}), {}, {}, <<>>)
    /\ UNCHANGED <<cloudVars, configFile, configHist, computeHist>>

\* aks_service = Webservice.deploy_from_image(workspace = ws,
\*     name = 'r-on-aml-service', image = image, deployment_config = ...,
\*     deployment_target = aks_target)
\* aks_service.wait_for_deployment(show_output = True)
DeployCell ==
    /\ At("deploy")
    /\ LET w == env["ws"] IN
       \E r \in DeployOutcomes(w, aks_service_name) : \E wt \in PollOutcomes :
         LET made == r = "ok"
             waited == made /\ wt = "ok"
             exc == IF ~made THEN r ELSE IF ~waited THEN wt ELSE None
             e1 == Bind(env, {"aks_service_name"})
         IN /\ services' =
                 IF made
                 THEN services \cup
                        {[ws |-> w, name |-> aks_service_name,
                          image |-> env["image"],
                          target |-> env["aks_target"],
                          state |-> IF waited THEN "Healthy" ELSE "Failed"]}
                 ELSE services
            /\ Ran("deploy", exc,
                   IF made
                   THEN [e1 EXCEPT !["aks_service"] = aks_service_name]
                   ELSE e1,
                   {}, {},
                   <<"deploy_from_image">> \o
                       (IF waited THEN <<"wait_for_deployment">> ELSE <<>>))
    /\ UNCHANGED <<computeVars, models, images, modelVer, imageVer,
                   configFile, configHist, computeHist>>

\* The attribute reads and calls of the endpoint cells.
EndpointCalls(c) ==
    CASE c = "endpoint" -> <<"scoring_uri", "swagger_uri", "get_keys">>
      [] c = "scoring_uri" -> <<"scoring_uri">>
      [] c = "swagger_uri" -> <<"swagger_uri">>
      [] c = "keys" -> <<"get_keys">>

\* print(aks_service.scoring_uri); print(aks_service.swagger_uri);
\* print(aks_service.get_keys())  (three cells in the AKS variant)
EndpointCell ==
    /\ \E c \in {"endpoint", "scoring_uri", "swagger_uri", "keys"} : At(c)
    /\ \E r \in CallOutcomes :
         /\ r = "ok" \/ Cur \in {"endpoint", "keys"}
         /\ Ran(Cur, IF r = "ok" THEN None ELSE r, env, {}, {},
                EndpointCalls(Cur))
    /\ UNCHANGED <<cloudVars, configFile, configHist, computeHist>>

\* test_sample = bytes(json.dumps({'x': 987.654}), encoding = 'utf8')
\* prediction = aks_service.run(input_data = test_sample); print(prediction)
TestCell ==
    /\ At("test")
    /\ \E r \in PollOutcomes :
         Ran("test", IF r = "ok" THEN None ELSE r,
             IF r = "ok" THEN Bind(env, {"test_sample", "prediction"})
             ELSE Bind(env, {"test_sample"}),
             {}, {}, <<"run">>)
    /\ UNCHANGED <<cloudVars, configFile, configHist, computeHist>>

\* The statements of the clean-up cell, in order:
\* aks_service.delete(); image.delete(); model.delete()
CleanupOrder == <<"service", "image", "model">>

\* Mutant of Deleted: a delete removes every resource of kind k in the
\* workspace, not only the one of this run.
DeletedAllOfKind(k) ==
    LET w == env["ws"] IN
    CASE k = "service" ->
           <<models, images, {s \in services : s.ws # w}>>
      [] k = "image" ->
           <<models, {i \in images : i.ws # w}, services>>
      [] k = "model" ->
           <<{m \in models : m.ws # w}, images, services>>

\* The registries after the resource of kind k of this run is deleted.
Deleted(k) ==
    LET w == env["ws"] IN
    CASE k = "service" ->
           <<models, images,
             {s \in services : ~(s.ws = w /\ s.name = env["aks_service"])}>>
      [] k = "image" ->
           <<models,
             {i \in images : ~(i.ws = w /\ ToString(i.ver) = env["image"])},
             services>>
      [] k = "model" ->
           <<{m \in models : ~(m.ws = w /\ ToString(m.ver) = env["model"])},
             images, services>>

\* One statement of the clean-up cell; the cell returns after the last.
CleanupStep ==
    /\ At("cleanup")
    /\ \E r \in PollOutcomes :
         LET k == CleanupOrder[step + 1]
             after == IF r = "ok" THEN Deleted(k)
                      ELSE <<models, images, services>>
             call == <<k \o ".delete">>
             last == step + 1 = Len(CleanupOrder)
         IN /\ models' = after[1]
            /\ images' = after[2]
            /\ services' = after[3]
            /\ lastCell' = "cleanup"
            /\ calls' = (IF step = 0 THEN <<>> ELSE calls) \o call
            /\ log' = log \o call
            /\ out' = {}
            /\ caught' = Swallowed("cleanup", IF r = "ok" THEN None ELSE r)
            /\ IF r = "ok" /\ ~last
               THEN /\ step' = step + 1
                    /\ UNCHANGED <<pc, status, failure, cycles>>
               ELSE /\ step' = step
                    /\ Finish(Uncaught("cleanup",
                                       IF r = "ok" THEN None ELSE r))
                    /\ cycles' = IF r = "ok" THEN cycles + 1 ELSE cycles
    /\ UNCHANGED <<computeVars, modelVer, imageVer, configFile, nb, env,
                   skipped, runs, configHist, computeHist, scoreVars>>

\* ------------------------------------------------------------ the platform
\* Provisioning of a cluster goes on in the cloud whether or not the
\* notebook waits for it.
CloudProgress ==
    /\ \E w \in WsIds : \E n \in ComputeNames :
         /\ compute[w][n].state = "creating"
         /\ compute' = [compute EXCEPT ![w][n].state = "ready"]
    /\ UNCHANGED <<wsExists, registryVars, configFile, nb, pc, step, status,
                   failure, env, out, caught, lastCell, calls, skipped, runs,
                   log, cycles, configHist, computeHist, scoreVars>>

\* ------------------------------------------------------------ specification
\* No notebook has run: no model, image or service yet.  Workspace W1, when
\* it exists, holds the two AmlCompute clusters someone made elsewhere; W2 has
\* no compute target.
InitNotebooks ==
    /\ compute = [w \in WsIds |-> [n \in ComputeNames |->
                    IF w = "W1" /\ wsExists[w] /\ n # aks_name
                    THEN Elsewhere ELSE Absent]]
    /\ models = {}
    /\ images = {}
    /\ services = {}
    /\ modelVer = [w \in WsIds |-> 0]
    /\ imageVer = [w \in WsIds |-> 0]
    /\ configFile = None
    /\ nb = None
    /\ pc = 1
    /\ step = 0
    /\ status = "idle"
    /\ failure = None
    /\ env = [v \in VarNames |-> Unbound]
    /\ out = {}
    /\ caught = {}
    /\ lastCell = None
    /\ calls = <<>>
    /\ skipped = {}
    /\ runs = 0
    /\ log = <<>>
    /\ writer = None
    /\ cycles = 0
    /\ writes = 0
    /\ resolved = {}
    /\ created = [w \in WsIds |-> [n \in ComputeNames |-> 0]]
    /\ createdExisting = {}

\* No scoring process has been started.
InitScoreVars ==
    /\ loads = 0
    /\ rInits = 0
    /\ rLog = <<>>
    /\ sCalls = 0
    /\ sInput = <<>>
    /\ sVec = <<>>
    /\ sExc = None
    /\ sReturn = [kind |-> None, val |-> ""]

\* Which workspaces exist is the platform's: none, W1, or both.
Init ==
    /\ wsExists \in {f \in [WsIds -> BOOLEAN] : f["W2"] => f["W1"]}
    /\ InitNotebooks
    /\ InitScoreVars
    /\ script = None
    /\ hasRInit = FALSE
    /\ sPhase = "off"

Next ==
    \/ \E n \in Notebooks : Start(n)
    \/ Skip
    \/ NameErrorCell
    \/ ParamsCell
    \/ AccessCell
    \/ CreateCell
    \/ CpuCell
    \/ GpuCell
    \/ FromConfigCell
    \/ RegisterCell
    \/ WritefileCell
    \/ CondaCell
    \/ ImageCell
    \/ AksNameCell
    \/ ProvisionCell
    \/ WaitCell
    \/ AttachCell
    \/ LookupCell
    \/ AksConfigCell
    \/ DeployCell
    \/ EndpointCell
    \/ TestCell
    \/ CleanupStep
    \/ CloudProgress

Spec == Init /\ [][Next]_vars

\* ======================================================== score.py
\* The serving container imports score.py, calls init() once and then run()
\* for every request.  A request body is a string; it is modelled as a
\* sequence over these characters:
\*   "a"  the letter d: no special character of R, and \d is no escape of R
\*   "n"  the letter n: no special character of R, and \n is an escape of R
\*   "q"  the single quote '
\*   "b"  the backslash
\*   "p"  the closing parenthesis )
\*   "h"  the comment sign #
\*   "L"  the text  ;load("<model file>")#  (an R statement and a comment sign)
Chars == {"a", "n", "q", "b", "p", "h", "L"}

Inputs == UNION {[1..n -> Chars] : n \in 0..MaxLen}

\* The vectors the R function run can return.
Elems == {"v1", "v2"}
Vectors == UNION {[1..n -> Elems] : n \in 0..MaxVec}

\* "run('{input_json_string}')".format(input_json_string=input_json_string):
\* "r" stands for the text  run(
Format(input) == <<"r", "q">> \o input \o <<"q", "p">>

\* R's reading of a string literal whose first character is t[i]: the
\* position of the quote that closes it, 0 if the literal is not closed or
\* holds an escape R does not know.  After a backslash R knows the quote, the
\* backslash and the letter n; \d, \), \# and \; are parse errors.
RECURSIVE LitEnd(_, _)
LitEnd(t, i) ==
    IF i > Len(t) THEN 0
    ELSE IF t[i] = "q" THEN i
    ELSE IF t[i] = "b"
    THEN IF i + 1 > Len(t) \/ t[i + 1] \notin {"q", "b", "n"} THEN 0
         ELSE LitEnd(t, i + 2)
    ELSE LitEnd(t, i + 1)

\* The value of a literal with the characters cs between its quotes: an
\* escaped quote or backslash is that character, an escaped n is the
\* newline character "e".
RECURSIVE Unescape(_)
Unescape(cs) ==
    IF cs = <<>> THEN <<>>
    ELSE IF Head(cs) = "b"
    THEN <<IF cs[2] = "n" THEN "e" ELSE cs[2]>>
            \o Unescape(SubSeq(cs, 3, Len(cs)))
    ELSE <<Head(cs)>> \o Unescape(Tail(cs))

\* What follows the call from position j on: the number of load statements,
\* -1 if R cannot parse it.  A comment sign ends the text R reads, also the
\* one that ends the load statement; a letter, a quote, a backslash or a
\* parenthesis after the call is a parse error.
Trailer(t, j) ==
    IF j > Len(t) THEN 0
    ELSE IF t[j] = "h" THEN 0
    ELSE IF t[j] = "L" THEN 1
    ELSE -1

\* R's parse of the text robjects.r is given.
ParseR(t) ==
    LET e == LitEnd(t, 3)
        bad == [ok |-> FALSE, arg |-> <<>>, extra |-> 0, single |-> FALSE]
    IN IF e = 0 THEN bad
       ELSE IF e + 1 > Len(t) \/ t[e + 1] # "p" THEN bad
       ELSE IF Trailer(t, e + 2) < 0 THEN bad
       ELSE [ok |-> TRUE,
             arg |-> Unescape(SubSeq(t, 3, e - 1)),
             extra |-> Trailer(t, e + 2),
             single |-> Trailer(t, e + 2) = 0]

\* What evaluating the R function run can give: a vector, an R object that
\* has no length (a closure), or an R error.
ROutcomes ==
    [kind : {"vector"}, vec : Vectors]
        \cup {[kind |-> k, vec |-> <<>>] : k \in {"closure", "RRuntimeError"}}

\* The value robjects.r returns for parse p when the R function run gave o:
\* the value of the last statement evaluated.
RValue(p, o) ==
    IF p.extra > 0 THEN [kind |-> "vector", vec |-> <<"model">>] ELSE o

\* The exception the try block of run() raises, None if it raises none.
RunException(p, o) ==
    IF ~p.ok THEN "RParsingError"
    ELSE IF o.kind = "RRuntimeError" THEN "RRuntimeError"
    ELSE IF RValue(p, o).kind = "closure" THEN "TypeError"
    ELSE None

\* Mutant of RunResult: the last element is returned, not the first.
RunResultLast(v) == IF Len(v) > 0 THEN v[Len(v)] ELSE ""

\* if len(result_vector) > 0: return result_vector[0] else: return ""
RunResult(v) == IF Len(v) > 0 THEN v[1] ELSE ""

\* Mutant of RunCatches: only R's runtime errors are caught.
RunCatchesRErrors(exc) == exc = "RRuntimeError"

\* except Exception as e: every exception the try block raises derives from
\* Exception.
RunCatches(exc) == exc \in {"RParsingError", "RRuntimeError", "TypeError"}

\* The number of times the evaluated text loads the model file.
RunLoads(p, o) == IF p.ok /\ o.kind # "RRuntimeError" THEN p.extra ELSE 0

\* Mutant of RInitCalled: init() is called in R without the exists() test.
RInitCalledUnguarded(s, has) == s = "full"

\* robjects.r("if (exists('init', mode='function')) { init() }"), a line
\* only the score.py of run-r-on-amls.ipynb has: whether R calls init().
RInitCalled(s, has) == s = "full" /\ has

\* The container starts a process with the score.py of notebook n.
ScoreStart ==
    /\ sPhase = "off"
    /\ script' \in Deployment
    /\ hasRInit' \in BOOLEAN
    /\ sPhase' = "new"
    /\ UNCHANGED <<notebookVars, loads, rInits, rLog, sCalls, sInput, sVec,
                   sExc, sReturn>>

\* def init(): rpy2.rinterface.initr()
\*     model_path = Model.get_model_path('model.RData')
\*     robjects.r("load('{model_path}')".format(model_path=model_path))
\*     robjects.r("if (exists('init', mode='function')) { init() }")
\* (the last line only in run-r-on-amls.ipynb)
ScoreInit ==
    /\ sPhase = "new"
    /\ \E g \in {"ok", "ModelNotFound"} : \E l, ri \in {"ok", "RRuntimeError"} :
         LET loaded == g = "ok" /\ l = "ok"
             probes == loaded /\ script = "full"
             inits == loaded /\ RInitCalled(script, hasRInit)
             exc == IF g # "ok" THEN g
                    ELSE IF l # "ok" THEN l
                    ELSE IF inits /\ ri # "ok" THEN ri ELSE None
         IN /\ loads' = IF loaded THEN loads + 1 ELSE loads
            /\ rInits' = IF inits THEN rInits + 1 ELSE rInits
            /\ rLog' = <<"initr">>
                        \o (IF g = "ok" THEN <<"load">> ELSE <<>>)
                        \o (IF probes THEN <<"exists">> ELSE <<>>)
                        \o (IF inits THEN <<"init">> ELSE <<>>)
            /\ sPhase' = IF exc = None THEN "ready" ELSE "failed"
            /\ sExc' = exc
    /\ UNCHANGED <<notebookVars, script, hasRInit, sCalls, sInput, sVec,
                   sReturn>>

\* def run(input_json_string):
\*     try: result_vector = robjects.r("run('{...}')".format(...))
\*          if len(result_vector) > 0: return result_vector[0]
\*          else: return ""
\*     except Exception as e: error = str(e); return error
ScoreRun ==
    /\ sPhase = "ready"
    /\ sCalls < MaxCalls
    /\ \E input \in Inputs : \E o \in ROutcomes :
         LET p == ParseR(Format(input))
             exc == RunException(p, o)
         IN /\ sInput' = input
            /\ sVec' = IF p.ok /\ o.kind # "RRuntimeError"
                       THEN RValue(p, o).vec ELSE <<>>
            /\ loads' = loads + RunLoads(p, o)
            /\ sExc' = exc
            /\ sReturn' =
                 IF exc = None
                 THEN [kind |-> "value", val |-> RunResult(RValue(p, o).vec)]
                 ELSE IF RunCatches(exc)
                 THEN [kind |-> "error", val |-> exc]
                 ELSE [kind |-> "raised", val |-> exc]
    /\ sCalls' = sCalls + 1
    /\ sPhase' = "replying"
    /\ UNCHANGED <<notebookVars, script, hasRInit, rInits, rLog>>

\* The container sends what run() returned and waits for the next request.
ScoreReply ==
    /\ sPhase = "replying"
    /\ sPhase' = "ready"
    /\ sInput' = <<>>
    /\ sVec' = <<>>
    /\ sExc' = None
    /\ sReturn' = [kind |-> None, val |-> ""]
    /\ UNCHANGED <<notebookVars, script, hasRInit, loads, rInits, rLog,
                   sCalls>>

\* The scoring process on its own: the notebooks stay as they start.
InitScore ==
    /\ wsExists = [w \in WsIds |-> FALSE]
    /\ InitNotebooks
    /\ InitScoreVars
    /\ script = None
    /\ hasRInit = FALSE
    /\ sPhase = "off"

NextScore ==
    \/ ScoreStart
    \/ ScoreInit
    \/ ScoreRun
    \/ ScoreReply

SpecScore == InitScore /\ [][NextScore]_vars

\* ================================================================ properties
ClusterCells == {"cpu", "gpu"}
AmlNames == {cpu_cluster_name, gpu_cluster_name}

\* Position of the first occurrence of call a in the run's log, 0 if none.
First(a) ==
    IF \E i \in 1..Len(log) : log[i] = a
    THEN CHOOSE i \in 1..Len(log) :
            log[i] = a /\ \A j \in 1..(i - 1) : log[j] # a
    ELSE 0

\* Every occurrence of call b in the log comes after an occurrence of a.
Before(a, b) ==
    \A i \in 1..Len(log) : log[i] = b => (First(a) > 0 /\ First(a) < i)

Count(a) == Cardinality({i \in 1..Len(log) : log[i] = a})

\* The run executed every cell (top to bottom), or left out only the
\* alternative deployment 'Option 1: Deploy to ACI'.
TopToBottom == skipped = {}
LinearRun == skipped \subseteq {"aci"}

\* A cycle: register, build, provision or look up, deploy on AKS, test, tear
\* down, i.e. every cell but the alternative ACI deployment.
AksCycle ==
    \/ nb = "aks" /\ skipped = {}
    \/ nb = "full" /\ skipped = {"aci"}

\* C1: provisioning of cpucluster and gpucluster is idempotent via the
\* existence check: a cluster cell issues ComputeTarget.create only after
\* its probe raised ComputeTargetException, never for a cluster that exists,
\* and over all runs each named cluster is created at most once.
C1_ClusterIdempotent ==
    /\ \A w \in WsIds : \A n \in AmlNames :
         /\ created[w][n] <= 1
         /\ <<w, n>> \notin createdExisting
    /\ \A i \in 1..Len(calls) :
         (lastCell \in ClusterCells /\ calls[i] = "ComputeTarget.create")
            => caught = {ComputeTargetException}

\* C1 witness: a later run of the CPU cell found the cluster an earlier run
\* had created, and did not create it again.
C1_Witness ==
    /\ lastCell = "cpu"
    /\ out = {MsgFound}
    /\ calls = <<"ComputeTarget">>
    /\ created[env["ws"]][cpu_cluster_name] = 1

\* C2 (as claimed): in the workspace-access cell and in the cluster cells
\* the only failure that is caught and turned into the fallback message is
\* 'the resource does not exist'; a permission error, a quota failure or a
\* failure of write_config is never caught.
C2_OnlyNotFoundCaught ==
    lastCell \in ClusterCells \cup {"access"}
       => caught \subseteq {WorkspaceNotFound, ComputeTargetException}

\* C2 (amended): in the cluster cells only the probe's
\* ComputeTargetException is caught, and every other failure halts the run
\* without a fallback message of its own; the workspace-access cell catches
\* every failure, never halts, and prints 'Workspace not accessible'.
C2_CatchByCell ==
    /\ lastCell \in ClusterCells =>
         /\ caught \subseteq {ComputeTargetException}
         /\ caught # {} => out = {MsgCreating}
         /\ (status = "halted" /\ caught = {}) => out = {}
    /\ lastCell = "access" =>
         /\ status # "halted"
         /\ caught # {} => out = {MsgNotAccessible}
         /\ caught = {} => out = {MsgSucceeded}

\* C2 witness: the probe's exception was caught, and the quota failure of
\* ComputeTarget.create that followed halted the run.
C2_Witness ==
    /\ lastCell = "gpu"
    /\ caught = {ComputeTargetException}
    /\ status = "halted"
    /\ failure = QuotaExceeded

\* C3 (as claimed): in a top-to-bottom run of the configuration notebook
\* exactly one of the two paths resolves the workspace and write_config is
\* performed exactly once.
C3_WrittenOnce ==
    /\ (nb = "config" /\ TopToBottom) =>
          (writes <= 1 /\ Cardinality(resolved) <= 1)
    /\ (nb = "config" /\ TopToBottom /\ status = "done") =>
          (writes = 1 /\ Cardinality(resolved) = 1)

\* C4 (as claimed): ComputeTarget.create is never issued for 'akscluster'
\* in a workspace where a compute target of that name already exists.
C4_AksReused == \A w \in WsIds : <<w, aks_name>> \notin createdExisting

\* C5 (as claimed): in a linear run of a deployment notebook the image's
\* wait_for_creation and the cluster's wait_for_completion return before
\* the deployment is issued, wait_for_deployment returns before the URIs and
\* keys are read and before the test request, there is one test request,
\* and it precedes the deletion of the service.
C5_WaitsPrecedeUse ==
    (nb \in Deployment /\ LinearRun) =>
       /\ Before("image.wait_for_creation", "deploy_from_image")
       /\ Before("aks.wait_for_completion", "deploy_from_image")
       /\ \A use \in {"scoring_uri", "swagger_uri", "get_keys", "run"} :
             Before("wait_for_deployment", use)
       /\ Before("run", "service.delete")
       /\ Count("run") <= 1

\* No service is bound to a deleted image and no image to a deleted model.
NoDangling ==
    /\ \A s \in services :
         \E i \in images : i.ws = s.ws /\ ToString(i.ver) = s.image
    /\ \A i \in images :
         \E m \in models : m.ws = i.ws /\ ToString(m.ver) = i.model

\* The service, image and model of the current run.
RunService ==
    {s \in services : s.ws = env["ws"] /\ s.name = env["aks_service"]}
RunImage ==
    {i \in images : i.ws = env["ws"] /\ ToString(i.ver) = env["image"]}
RunModel ==
    {m \in models : m.ws = env["ws"] /\ ToString(m.ver) = env["model"]}

\* C6 (as claimed): after the clean-up cell completes, the service, the image and the
\* model of the run no longer exist; they are deleted service first, then
\* image, then model, and at no point has a deleted resource a live
\* dependent.
C6_Teardown ==
    /\ NoDangling
    /\ (nb \in Deployment /\ status = "done") =>
          (RunService = {} /\ RunImage = {} /\ RunModel = {})
    /\ nb \in Deployment =>
          /\ Before("service.delete", "image.delete")
          /\ Before("image.delete", "model.delete")

\* Failures of the platform or the connection, as opposed to failures the
\* notebook's own state causes (a name in use, a name not bound).
ExternalFailures ==
    {PermissionDenied, QuotaExceeded, Interrupted, ServiceError,
     WebserviceException}

\* The service the deploy cell of this run created.
HasShape(s) ==
    /\ s.ws = env["ws"]
    /\ s.name = aks_service_name
    /\ s.image = env["image"]
    /\ s.target = aks_name
    /\ s.state = "Healthy"

\* C7 (as claimed): after complete cycles, the next linear cycle completes
\* unless the platform fails, and once its deploy cell has returned without
\* a failure the service 'r-on-aml-service' is bound to the freshly built
\* image and to 'akscluster'.  (In such a cycle a NameError follows only a
\* deployment that failed: %%time let the run go on without aks_service.)
C7_NextCycleCompletes ==
    (cycles >= 1 /\ AksCycle) =>
       /\ status = "halted" => failure \in ExternalFailures \cup {NameError}
       /\ (lastCell = "deploy" /\ status = "running" /\ caught = {}) =>
             \E s \in services : HasShape(s)

\* C10: when the workspace-access cell prints 'Workspace configuration
\* succeeded', the configuration file names the workspace the cell loaded,
\* which is what Workspace.from_config() resolves; and a deployment notebook
\* holds a workspace only if a configuration cell wrote the file, and then
\* the one the file names.
C10_ConfiguredForLoaded ==
    /\ (lastCell = "access" /\ MsgSucceeded \in out) =>
          /\ env["ws"] = env["params"]
          /\ configFile = env["ws"]
          /\ FromConfig(configFile) = env["ws"]
          /\ writer = "access"
    /\ (nb \in Deployment /\ env["ws"] # Unbound) =>
          /\ configFile # None
          /\ env["ws"] = configFile
          /\ writer \in {"access", "create"}

\* C10 witness: a deployment notebook resolved workspace W2 from a file the
\* workspace-access cell wrote over an earlier configuration's.
C10_Witness ==
    /\ nb \in Deployment
    /\ lastCell = "from_config"
    /\ env["ws"] = "W2"
    /\ writer = "access"
    /\ runs = MaxRuns

\* C8: run() returns a result or an error string for every input and never
\* raises: an exception raised while the R call is built, evaluated or its
\* result inspected is caught and str(e) is what run() returns.
C8_RunNeverRaises ==
    sPhase = "replying" =>
       /\ sReturn.kind \in {"value", "error"}
       /\ sExc = None => sReturn.kind = "value"
       /\ sExc # None => sReturn = [kind |-> "error", val |-> sExc]

\* C8 witness: inspecting the result raised (len() of an R closure) and
\* run() returned the error's text.
C8_Witness ==
    /\ sPhase = "replying"
    /\ sExc = "TypeError"
    /\ sReturn = [kind |-> "error", val |-> "TypeError"]

\* C9 (as claimed): after init(), whatever calls of run() follow, the model
\* file has been loaded exactly once.
C9_LoadedOnce == sPhase \in {"ready", "replying"} => loads = 1

\* ------------------------------------------------------------------- C11
\* The cluster a cluster cell is about, and the max_nodes the claim names.
CellCluster(cell) == IF cell = "cpu" THEN cpu_cluster_name ELSE gpu_cluster_name
ClaimedMax(cell) == IF cell = "cpu" THEN 4 ELSE 3

\* C11 (as claimed): after a cluster cell has run, on either path, the
\* cluster's node bounds are 0 and 4 (cpucluster), 0 and 3 (gpucluster).
C11_NodeBounds ==
    \A cell \in ClusterCells :
       (lastCell = cell /\ failure = None /\ out # {}) =>
          LET c == compute[env["ws"]][CellCluster(cell)]
          IN c.min = 0 /\ c.max = ClaimedMax(cell)

\* C11 (amended): a cluster the cell created has the bounds 0 and 4 (0 and 3);
\* a cluster the cell found keeps the bounds it had, which are those only
\* when a cluster cell created it.
C11_BoundsWhenCreated ==
    \A cell \in ClusterCells :
       (lastCell = cell /\ out # {}) =>
          LET w == env["ws"]
              n == CellCluster(cell)
              c == compute[w][n]
              own == c.min = 0 /\ c.max = ClaimedMax(cell)
          IN /\ (MsgCreating \in out /\ c.state # "absent") => own
             /\ MsgFound \in out =>
                   /\ c.state # "absent"
                   /\ IF created[w][n] > 0 THEN own
                      ELSE c.min = Elsewhere.min /\ c.max = Elsewhere.max

\* C11 witness: the GPU cell found the cluster an earlier run of the cell
\* had created, with the bounds 0 and 3.
C11_Witness ==
    /\ lastCell = "gpu"
    /\ MsgFound \in out
    /\ created[env["ws"]][gpu_cluster_name] = 1
    /\ compute[env["ws"]][gpu_cluster_name].min = 0
    /\ compute[env["ws"]][gpu_cluster_name].max = 3

\* ------------------------------------------------------------------- C12
\* C12: for every vector the R call gives, run() returns the vector's first
\* element when there is one, dropping the others, and "" when it is empty.
C12_FirstElement ==
    (sPhase = "replying" /\ sExc = None) =>
       /\ sReturn.kind = "value"
       /\ Len(sVec) > 0 => sReturn.val = Head(sVec)
       /\ Len(sVec) = 0 => sReturn.val = ""

\* C12 witness: R gave a vector of two different elements and run() returned
\* the first.
C12_Witness ==
    /\ sPhase = "replying"
    /\ sExc = None
    /\ Len(sVec) = 2
    /\ sVec[1] # sVec[2]
    /\ sReturn = [kind |-> "value", val |-> sVec[1]]

\* ------------------------------------------------------------------- C13
\* C13: a statement of the clean-up cell removes nothing but the service, the
\* image and the model of the current run, and leaves the workspaces, the
\* configuration file and every compute target (akscluster, cpucluster,
\* gpucluster) as they were.
C13_TeardownFrame ==
    [][CleanupStep =>
          /\ wsExists' = wsExists
          /\ configFile' = configFile
          /\ compute' = compute
          /\ models' \subseteq models
          /\ images' \subseteq images
          /\ services' \subseteq services
          /\ (models \ models') \subseteq RunModel
          /\ (images \ images') \subseteq RunImage
          /\ (services \ services') \subseteq RunService]_vars

\* C13 witness: the clean-up cell completed; the AKS cluster, the
\* configuration file and a model registered by an earlier run are there.
C13_Witness ==
    /\ lastCell = "cleanup"
    /\ status = "done"
    /\ cycles > 0
    /\ wsExists[env["ws"]]
    /\ configFile = env["ws"]
    /\ compute[env["ws"]][aks_name].state # "absent"
    /\ \E m \in models : m.ws = env["ws"]

\* ------------------------------------------------------------------- C14
\* The position of R evaluation a in init(), 0 if it was not made.
RPos(a) ==
    IF \E i \in 1..Len(rLog) : rLog[i] = a
    THEN CHOOSE i \in 1..Len(rLog) : rLog[i] = a ELSE 0

\* C14: in the score.py of run-r-on-amls.ipynb, once init() has loaded the
\* model file it calls the R function init exactly when such a function
\* exists, and after the load; when none exists init() returns without an
\* error and calls nothing in R.
C14_RInitIffExists ==
    (script = "full" /\ sPhase \notin {"off", "new"}) =>
       /\ rInits = (IF loads > 0 /\ hasRInit THEN 1 ELSE 0)
       /\ rInits > 0 <=> RPos("init") > 0
       /\ RPos("init") > 0 => (RPos("load") > 0 /\ RPos("load") < RPos("init"))
       /\ (loads > 0 /\ ~hasRInit) =>
             (sPhase # "failed" /\ rLog = <<"initr", "load", "exists">>)

\* C14 witness: the model file defines an R function init; init() loaded the
\* file and then called it.
C14_Witness ==
    /\ script = "full"
    /\ hasRInit
    /\ sPhase = "ready"
    /\ rInits = 1
    /\ rLog = <<"initr", "load", "exists", "init">>

\* ------------------------------------------------------------------- C15
\* C15 (as claimed): in a top-to-bottom run of run-r-on-amls.ipynb no cell,
\* the ACI cell included, halts on a name that no cell has bound.
C15_NamesBound ==
    (nb = "full" /\ TopToBottom) => failure # NameError

\* ------------------------------------------------------------------- C16
\* C16 (as claimed): for every input, quotes and backslashes included, what
\* run() has R evaluate is one call of run on a string literal equal to the
\* input; no input ends the literal early or adds R code.
C16_ArgumentIsInput ==
    sPhase = "replying" =>
       LET p == ParseR(Format(sInput))
       IN /\ p.ok
          /\ p.single
          /\ p.extra = 0
          /\ p.arg = sInput

\* ------------------------------------------------------------------- C17
\* C17 (as claimed): whenever the workspace-access cell has printed
\* 'Workspace not accessible', the cell has bound no handle ws and has not
\* written the configuration file.  (A run starts with ws unbound and no
\* write; the access cell is the first cell that can bind or write.)
C17_UnchangedOnFailure ==
    (lastCell = "access" /\ MsgNotAccessible \in out) =>
       /\ env["ws"] = Unbound
       /\ writes = 0

\* ------------------------------------------------------------------- C18
\* The handle a cluster cell binds.
CellHandle(cell) == IF cell = "cpu" THEN "cpu_cluster" ELSE "gpu_cluster"

\* C18 (as claimed): whenever a cluster cell has completed without an
\* exception, its handle is bound and the cluster it refers to has completed
\* provisioning, whether the cell created the cluster or found it.
C18_HandleReady ==
    \A cell \in ClusterCells :
       (lastCell = cell /\ failure = None) =>
          /\ env[CellHandle(cell)] = CellCluster(cell)
          /\ compute[env["ws"]][CellCluster(cell)].state = "ready"

====
